---- MODULE Spec2Model ----
(***************************************************************************)
(* A model of the RD-RAG repository: the query decomposer, the reranker    *)
(* with its local fallback, the context assembler, and the three pipeline  *)
(* variants (rationale-driven, simple, reranker-only).                     *)
(*                                                                         *)
(* Texts handled by the subquery parser are sequences of tokens.  Every    *)
(* token is one character, except "Query:", which stands for the six       *)
(* characters of the literal the retry parser looks for.  Fragment texts   *)
(* and the assembled context are TLA+ strings.                             *)
(***************************************************************************)
EXTENDS Integers, Sequences, FiniteSets, TLC

VARIABLES
    \* LLMUtils.generate_subqueries (rag_pipeline/llm_utils.py)
    api_key,          \* TRUE iff OPENAI_API_KEY was set at construction
    rationales,       \* argument
    num_queries,      \* argument
    subqueries_text,  \* the local of the same name: the last response, stripped
    subqueries,       \* the local of the same name
    sq_pc,            \* "call", "retry", "returned"
    sq_ret,           \* the returned list
    sq_requests,      \* generation requests issued by this call
    \* VoyageReranker.rerank (rag_pipeline/reranker.py, rag_with_reranker/reranker.py)
    client,           \* TRUE iff VOYAGE_API_KEY was set at construction
    rr_query,         \* argument query
    documents,        \* argument documents
    rr_top_k,         \* argument top_k
    rr_service,       \* what the rerank service did with the request, if asked
    rr_pc,            \* "call", "returned"
    rr_ret,           \* [raised, value]: the call's outcome
    \* LLMUtils.prepare_context (rag_pipeline/llm_utils.py)
    reranked_results, \* argument: the mapping, as its items() in insertion order
    top_k,            \* argument
    all_docs,         \* the local of the same name
    seen_docs,        \* the local of the same name
    chunk_counter,    \* the local of the same name
    context,          \* the returned string
    ctx_calls,        \* calls of prepare_context made so far
    \* the pipeline object and the disk
    variant,          \* which pipeline class was constructed
    persisted,        \* what lies at FAISS_INDEX_PATH
    index,            \* VectorStore.index
    all_chunks,       \* RAGWithRerankerPipeline.all_chunks
    pc,               \* where the pipeline's current call stands
    init_args,        \* arguments of the initialize call in progress or last made
    init_log,         \* what the last initialize call did
    initialized,      \* TRUE once an initialize call has returned
    \* process_query: its argument and locals
    query,
    pq_rationales,    \* rationales
    pq_subqueries,    \* subqueries
    initial_results,  \* initial_results / retrieved_docs, as items()
    pq_reranked,      \* reranked_results, as items()
    context_docs,     \* context_docs (simple and reranker variants)
    pq_context,       \* context
    response,         \* the returned string
    pq_i,             \* iterations done of the fan-out loop in progress
    gen_requests,     \* generation requests sent by this call
    error,            \* what the call raised, "" if nothing
    pq_calls,         \* the searches and rerank calls made by this call, in order
    \* LLMUtils.generate_response (rag_pipeline/llm_utils.py, simple_rag/llm_utils.py)
    ga_form,          \* "string": rag_pipeline's; "list": simple_rag's
    ga_query,         \* argument query
    ga_context,       \* argument context (string form)
    ga_docs,          \* argument context_docs (list form)
    ga_limit,         \* the configured MAX_CONTEXT_TOKENS
    ga_pc,            \* "call", "returned"
    ga_ret            \* [raised, value, sent]: the call's outcome

sqVars == <<api_key, rationales, num_queries, subqueries_text, subqueries,
            sq_pc, sq_ret, sq_requests>>

rrVars == <<client, rr_query, documents, rr_top_k, rr_service, rr_pc, rr_ret>>

ctxVars == <<reranked_results, top_k, all_docs, seen_docs, chunk_counter,
             context, ctx_calls>>

sqLocals == <<rationales, num_queries, subqueries_text, subqueries,
              sq_pc, sq_ret, sq_requests>>

rrLocals == <<rr_query, documents, rr_top_k, rr_service, rr_pc, rr_ret>>

pipeVars == <<variant, persisted, index, all_chunks, pc, init_args, init_log,
              initialized, query, pq_rationales, pq_subqueries, initial_results,
              pq_reranked, context_docs, pq_context, response, pq_i, gen_requests,
              error, pq_calls>>

gaVars == <<ga_form, ga_query, ga_context, ga_docs, ga_limit, ga_pc, ga_ret>>

vars == <<sqVars, rrVars, ctxVars, pipeVars, gaVars>>

-----------------------------------------------------------------------------
(* Bounds *)

MaxLines == 2    \* lines in one generation-service response
MaxN == 2        \* largest num_queries asked of generate_subqueries
MaxDocs == 2     \* documents in one list handed to rerank / ranked under one key
MaxTopK == 2     \* largest top_k
MaxCtxCalls == 2 \* prepare_context calls followed in one behaviour

-----------------------------------------------------------------------------
(* Python helpers *)

Min(a, b) == IF a <= b THEN a ELSE b
Max(a, b) == IF a >= b THEN a ELSE b

\* s[:n] of Python: a negative n counts from the end.
PySliceTo(s, n) ==
    IF n >= 0 THEN SubSeq(s, 1, Min(n, Len(s)))
    ELSE SubSeq(s, 1, Max(Len(s) + n, 0))

\* x in list
InList(x, s) == \E i \in 1..Len(s) : s[i] = x

IsSpace(c) == c = " "

RECURSIVE LStrip(_)
LStrip(s) == IF s # <<>> /\ IsSpace(Head(s)) THEN LStrip(Tail(s)) ELSE s

RECURSIVE RStrip(_)
RStrip(s) ==
    IF s # <<>> /\ IsSpace(s[Len(s)]) THEN RStrip(SubSeq(s, 1, Len(s) - 1)) ELSE s

\* str.strip() on one line
Strip(s) == RStrip(LStrip(s))

\* A text is the sequence of its lines (what split('\n') returns).  str.strip()
\* on the whole text also removes the line breaks at both ends.
RECURSIVE TextLStrip(_)
TextLStrip(t) ==
    IF Len(t) = 1 THEN <<LStrip(t[1])>>
    ELSE IF LStrip(t[1]) = <<>> THEN TextLStrip(Tail(t))
    ELSE <<LStrip(t[1])>> \o Tail(t)

RECURSIVE TextRStrip(_)
TextRStrip(t) ==
    IF Len(t) = 1 THEN <<RStrip(t[1])>>
    ELSE IF RStrip(t[Len(t)]) = <<>> THEN TextRStrip(SubSeq(t, 1, Len(t) - 1))
    ELSE SubSeq(t, 1, Len(t) - 1) \o <<RStrip(t[Len(t)])>>

TextStrip(t) == TextRStrip(TextLStrip(t))

\* the token holds a ':' character
HasColonChar(c) == c \in {":", "Query:"}

\* ':' in line
ColonIn(line) == \E i \in 1..Len(line) : HasColonChar(line[i])

\* 'Query:' in line
QueryIn(line) == \E i \in 1..Len(line) : line[i] = "Query:"

Digits == {"1", "2", "3", "4", "5", "6", "7", "8", "9"}

\* any(str(i) in line[:2] for i in range(1, 10)): a digit 1..9 among the first
\* two characters.  The first two characters of "Query:" are "Qu".
DigitInFirstTwo(line) ==
    \/ Len(line) >= 1 /\ line[1] \in Digits
    \/ Len(line) >= 2 /\ line[1] # "Query:" /\ line[2] \in Digits

\* line.split(':', 1)[-1] for a line with a ':': the text after the FIRST ':'
AfterFirstColon(line) ==
    LET i == CHOOSE k \in 1..Len(line) :
                 /\ HasColonChar(line[k])
                 /\ \A j \in 1..(k - 1) : ~HasColonChar(line[j])
    IN SubSeq(line, i + 1, Len(line))

\* line.replace('Query:', '')
RECURSIVE RemoveQuery(_)
RemoveQuery(line) ==
    IF line = <<>> THEN <<>>
    ELSE IF Head(line) = "Query:" THEN RemoveQuery(Tail(line))
    ELSE <<Head(line)>> \o RemoveQuery(Tail(line))

-----------------------------------------------------------------------------
(* LLMUtils.generate_subqueries *)

\* the condition of the first parse's if: the line looks like a list item
KeptLine(line) ==
    /\ line # <<>>
    /\ \/ line[1] = "-"
       \/ line[1] = "*"
       \/ ColonIn(line)
       \/ DigitInFirstTwo(line)

\* parts[-1].strip()
ExtractQuery(line) == Strip(IF ColonIn(line) THEN AfterFirstColon(line) ELSE line)

\* one pass of the first parse's loop body
ParseLine(acc, raw) ==
    LET line == Strip(raw)
        subquery == ExtractQuery(line)
    IN IF KeptLine(line) /\ subquery # <<>> /\ ~InList(subquery, acc)
       THEN Append(acc, subquery)
       ELSE acc

RECURSIVE ParseFrom(_, _)
ParseFrom(acc, text) ==
    IF text = <<>> THEN acc ELSE ParseFrom(ParseLine(acc, Head(text)), Tail(text))

\* the first parse: the for loop over subqueries_text.split('\n')
ParseFirst(text) == ParseFrom(<<>>, text)

\* the retry parse: the list comprehension over the retry response
RECURSIVE ParseRetry(_)
ParseRetry(text) ==
    IF text = <<>> THEN <<>>
    ELSE IF QueryIn(Head(text))
         THEN <<Strip(RemoveQuery(Head(text)))>> \o ParseRetry(Tail(text))
         ELSE ParseRetry(Tail(text))

\* the retry condition that never asks again
NeedsRetryNever(subs, n) == FALSE

\* not subqueries or len(subqueries) < num_queries
NeedsRetry(subs, n) == subs = <<>> \/ Len(subs) < n

\* return subqueries[:num_queries]
Truncate(subs, n) == PySliceTo(subs, n)

\* The whole function on given service responses: the returned list and the
\* number of generation requests made.
GenerateSubqueries(has_client, rats, n, resp1, resp2) ==
    IF ~has_client THEN [subqueries |-> <<rats>>, requests |-> 0]
    ELSE LET first == ParseFirst(TextStrip(resp1))
         IN IF NeedsRetry(first, n)
            THEN [subqueries |-> Truncate(ParseRetry(TextStrip(resp2)), n),
                  requests |-> 2]
            ELSE [subqueries |-> Truncate(first, n), requests |-> 1]

\* Response lines the generation service may send.
Lines ==
    { <<>>,
      <<"a">>,
      <<" ", "-", " ", "a", " ">>,
      <<"*", "b">>,
      <<"1", ".", "b">>,
      <<"a", ":", "b", ":", "a">>,
      <<"Query:", " ", "a">>,
      <<"Query:", " ", "b">>,
      <<"Query:">> }

Responses == UNION {[1..k -> Lines] : k \in 1..MaxLines}

\* Query and rationale texts.
Queries == {<<"a">>, <<"b", "?">>}

NoText == <<>>

SqInit ==
    /\ api_key \in BOOLEAN
    /\ rationales \in Queries
    /\ num_queries \in 0..MaxN
    /\ subqueries_text = NoText
    /\ subqueries = <<>>
    /\ sq_pc = "call"
    /\ sq_ret = <<>>
    /\ sq_requests = 0

\* lines 66-68: no credential, the rationale is the only subquery
SqNoClient ==
    /\ sq_pc = "call"
    /\ ~api_key
    /\ sq_ret' = GenerateSubqueries(FALSE, rationales, num_queries, NoText, NoText).subqueries
    /\ sq_pc' = "returned"
    /\ UNCHANGED <<api_key, rationales, num_queries, subqueries_text, subqueries,
                   sq_requests>>
    /\ UNCHANGED <<rrVars, ctxVars, pipeVars, gaVars>>

\* lines 70-91: the first request and its parse
SqFirstRequest ==
    /\ sq_pc = "call"
    /\ api_key
    /\ \E resp \in Responses :
         /\ subqueries_text' = TextStrip(resp)
         /\ subqueries' = ParseFirst(TextStrip(resp))
    /\ sq_requests' = sq_requests + 1
    /\ IF NeedsRetry(subqueries', num_queries)
       THEN sq_pc' = "retry" /\ sq_ret' = sq_ret
       ELSE sq_pc' = "returned" /\ sq_ret' = Truncate(subqueries', num_queries)
    /\ UNCHANGED <<api_key, rationales, num_queries>>
    /\ UNCHANGED <<rrVars, ctxVars, pipeVars, gaVars>>

\* lines 93-107: the retry request, its parse, and the return
SqRetryRequest ==
    /\ sq_pc = "retry"
    /\ \E resp \in Responses :
         /\ subqueries_text' = TextStrip(resp)
         /\ subqueries' = ParseRetry(TextStrip(resp))
    /\ sq_requests' = sq_requests + 1
    /\ sq_ret' = Truncate(subqueries', num_queries)
    /\ sq_pc' = "returned"
    /\ UNCHANGED <<api_key, rationales, num_queries>>
    /\ UNCHANGED <<rrVars, ctxVars, pipeVars, gaVars>>

SqNext == SqNoClient \/ SqFirstRequest \/ SqRetryRequest

\* no generate_subqueries call in progress
SqLocalsIdle ==
    /\ rationales = NoText
    /\ num_queries = 0
    /\ subqueries_text = NoText
    /\ subqueries = <<>>
    /\ sq_pc = "idle"
    /\ sq_ret = <<>>
    /\ sq_requests = 0

SqIdle == api_key = FALSE /\ SqLocalsIdle

\* C2: for every rationale, every n >= 1 and every pair of generation-service
\* responses, generate_subqueries returns a list of at least 1 and at most n
\* entries.  (For n = 0 no list has such a length; the statement is taken for
\* the n it can hold for.)
C2_LengthBetweenOneAndN ==
    (sq_pc = "returned" /\ num_queries >= 1)
        => (Len(sq_ret) >= 1 /\ Len(sq_ret) <= num_queries)

NoDuplicates(s) == \A i, j \in 1..Len(s) : i # j => s[i] # s[j]

\* C3: the list generate_subqueries returns holds no two equal strings, whether
\* it comes from the first parse or from the retry parse.
C3_NoDuplicateSubqueries == sq_pc = "returned" => NoDuplicates(sq_ret)

-----------------------------------------------------------------------------
(* VoyageReranker.rerank *)

\* Fragment texts.
Texts == {"A", "B"}

DocLists == UNION {[1..k -> Texts] : k \in 0..MaxDocs}

\* top_k = None
NoneK == -1

\* the fallback scoring from the second tenth down: 1.0 - ((i + 1) * 0.1)
FallbackRankingOffByOne(docs) ==
    [i \in 1..Len(docs) |->
        [index |-> i - 1, document |-> docs[i], relevance_score |-> 10 - i]]

\* the list comprehension of the fallback; relevance_score in tenths:
\* 1.0 - (i * 0.1) is 10 - i tenths
FallbackRanking(docs) ==
    [i \in 1..Len(docs) |->
        [index |-> i - 1, document |-> docs[i], relevance_score |-> 10 - (i - 1)]]

\* documents[i] of Python raises IndexError outside -len..len-1
PyIndexOK(s, i) == -Len(s) <= i /\ i < Len(s)

PyGet(s, i) == IF i >= 0 THEN s[i + 1] ELSE s[Len(s) + i + 1]

\* the conversion that takes the document at the rank, documents[i] of
\* enumerate(reranking.results), for the document the result names
ConvertResultsByRank(docs, results) ==
    [i \in 1..Len(results) |->
        [index |-> results[i].index,
         document |-> PyGet(docs, i - 1),
         relevance_score |-> results[i].relevance_score]]

\* the loop that converts reranking.results to the standard format
ConvertResults(docs, results) ==
    [i \in 1..Len(results) |->
        [index |-> results[i].index,
         document |-> PyGet(docs, results[i].index),
         relevance_score |-> results[i].relevance_score]]

Returned(v) == [raised |-> FALSE, value |-> v]

Raised == [raised |-> TRUE, value |-> <<>>]

\* rerank without its except clause: the error leaves rerank
RerankOnErrorReraise(docs) == Raised

\* the except clause of rerank: any Exception raised in the try block
RerankOnError(docs) == Returned(FallbackRanking(docs))

\* the try block of rerank, on what the service did (outcome.error: the request
\* raised; otherwise outcome.results is reranking.results)
RerankWithClient(docs, outcome) ==
    IF outcome.error THEN RerankOnError(docs)
    ELSE IF \E i \in 1..Len(outcome.results) : ~PyIndexOK(docs, outcome.results[i].index)
         THEN RerankOnError(docs)
         ELSE Returned(ConvertResults(docs, outcome.results))

\* the fallback cut to the top_k of the call in progress:
\* the comprehension followed by [:top_k]
RerankNoClientCapped(q, docs) ==
    Returned(IF rr_top_k = NoneK THEN FallbackRanking(docs)
             ELSE PySliceTo(FallbackRanking(docs), rr_top_k))

\* if not self.client: the fallback to the original order
RerankNoClient(q, docs) == Returned(FallbackRanking(docs))

\* rerank(query, documents, top_k)
Rerank(has_client, q, docs, k, outcome) ==
    IF ~has_client THEN RerankNoClient(q, docs)
    ELSE RerankWithClient(docs, outcome)

\* Scores the service may report, in tenths.
ServiceScores == {9, 4}

\* What the rerank service may answer to a request over docs with cap k: an
\* error, or at most k results (at most MaxDocs), each naming an index that may
\* lie outside the documents on either side.
ServiceResults(docs, k) ==
    LET cap == IF k = NoneK THEN MaxDocs ELSE Min(k, MaxDocs)
        one == [index : (-Len(docs) - 1)..Len(docs), relevance_score : ServiceScores]
    IN UNION {[1..n -> one] : n \in 0..cap}

ServiceError == [error |-> TRUE, results |-> <<>>]

ServiceOutcomes(docs, k) ==
    {ServiceError} \cup {[error |-> FALSE, results |-> r] : r \in ServiceResults(docs, k)}

\* no request was sent
NotAsked == [error |-> FALSE, results |-> <<>>]

RrInit ==
    /\ client \in BOOLEAN
    /\ rr_query \in Queries
    /\ documents \in DocLists
    /\ rr_top_k \in {NoneK} \cup 0..MaxTopK
    /\ rr_service = NotAsked
    /\ rr_pc = "call"
    /\ rr_ret = Returned(<<>>)

\* rerank without a client
RrCallNoClient ==
    /\ rr_pc = "call"
    /\ ~client
    /\ rr_ret' = Rerank(FALSE, rr_query, documents, rr_top_k, NotAsked)
    /\ rr_pc' = "returned"
    /\ UNCHANGED <<client, rr_query, documents, rr_top_k, rr_service>>
    /\ UNCHANGED <<sqVars, ctxVars, pipeVars, gaVars>>

\* rerank with a client: the service answers or fails
RrCallClient ==
    /\ rr_pc = "call"
    /\ client
    /\ \E outcome \in ServiceOutcomes(documents, rr_top_k) :
         /\ rr_service' = outcome
         /\ rr_ret' = Rerank(TRUE, rr_query, documents, rr_top_k, outcome)
    /\ rr_pc' = "returned"
    /\ UNCHANGED <<client, rr_query, documents, rr_top_k>>
    /\ UNCHANGED <<sqVars, ctxVars, pipeVars, gaVars>>

RrNext == RrCallNoClient \/ RrCallClient

\* no rerank call in progress
RrLocalsIdle ==
    /\ rr_query = NoText
    /\ documents = <<>>
    /\ rr_top_k = NoneK
    /\ rr_service = NotAsked
    /\ rr_pc = "idle"
    /\ rr_ret = Returned(<<>>)

RrIdle == client = FALSE /\ RrLocalsIdle

\* C7: with no rerank credential, rerank returns one entry per input document in
\* input order, entry i carrying index i, document d_i and score 10 - i tenths
\* (1.0 - 0.1*i), strictly decreasing along the output, whatever the query.
C7_FallbackRankStable ==
    (rr_pc = "returned" /\ ~client) =>
        /\ ~rr_ret.raised
        /\ Len(rr_ret.value) = Len(documents)
        /\ \A i \in 1..Len(documents) :
             /\ rr_ret.value[i].index = i - 1
             /\ rr_ret.value[i].document = documents[i]
             /\ rr_ret.value[i].relevance_score = 10 - (i - 1)
        /\ \A i \in 1..(Len(documents) - 1) :
             rr_ret.value[i].relevance_score > rr_ret.value[i + 1].relevance_score
        /\ \A q \in Queries :
             Rerank(FALSE, q, documents, rr_top_k, NotAsked) = rr_ret

C7_Witness ==
    /\ rr_pc = "returned"
    /\ ~client
    /\ Len(documents) = 2
    /\ rr_ret.value[2].relevance_score = 9

\* the service call failed: the request raised, or the response names an index
\* documents[...] rejects
ServiceFailed ==
    \/ rr_service.error
    \/ \E i \in 1..Len(rr_service.results) :
         \/ rr_service.results[i].index >= Len(documents)
         \/ rr_service.results[i].index < -Len(documents)

RankedKeys == {"index", "document", "relevance_score"}

\* C8: with the rerank credential configured and the service call failing
\* (an out-of-range index in the response included), rerank does not raise and
\* returns the list the unconfigured fallback returns for the same documents;
\* entries have the keys index, document, relevance_score on every path.
C8_ErrorFallsBack ==
    (rr_pc = "returned" /\ client) =>
        /\ ~rr_ret.raised
        /\ \A i \in 1..Len(rr_ret.value) : DOMAIN rr_ret.value[i] = RankedKeys
        /\ ServiceFailed =>
             /\ rr_ret = Rerank(FALSE, rr_query, documents, rr_top_k, NotAsked)
             /\ Len(rr_ret.value) = Len(documents)
             /\ \A i \in 1..Len(documents) :
                  rr_ret.value[i] = [index |-> i - 1, document |-> documents[i],
                                     relevance_score |-> 10 - (i - 1)]

C8_Witness ==
    /\ rr_pc = "returned"
    /\ client
    /\ ~rr_service.error
    /\ Len(documents) = 2
    /\ Len(rr_service.results) = 2
    /\ rr_service.results[1].index = 0
    /\ rr_service.results[2].index = 2
    /\ rr_ret.value = FallbackRanking(documents)

-----------------------------------------------------------------------------
(* LLMUtils.prepare_context *)

\* f"[Chunk {chunk_counter}]:\n{doc_content}"
LabeledDoc(counter, doc_content) ==
    "[Chunk " \o ToString(counter) \o "]:\n" \o doc_content

Separator == "\n\n---\n\n"

\* "\n\n---\n\n".join(all_docs)
RECURSIVE Join(_)
Join(docs) ==
    IF docs = <<>> THEN ""
    ELSE IF Len(docs) = 1 THEN docs[1]
    ELSE docs[1] \o Separator \o Join(Tail(docs))

\* the seen-set and the counter kept from the call before
CtxStartKept == [all_docs |-> <<>>, seen_docs |-> seen_docs, chunk_counter |-> chunk_counter]

\* the three locals as the function sets them on entry
CtxStart == [all_docs |-> <<>>, seen_docs |-> {}, chunk_counter |-> 1]

\* the inner loop's body without the seen_docs test
CtxVisitNoDedup(st, doc_info) ==
    [all_docs |-> Append(st.all_docs, LabeledDoc(st.chunk_counter, doc_info.document)),
     seen_docs |-> st.seen_docs \cup {doc_info.document},
     chunk_counter |-> st.chunk_counter + 1]

\* the body of the inner loop after the top_k test
CtxVisit(st, doc_info) ==
    LET doc_content == doc_info.document
    IN IF doc_content \notin st.seen_docs
       THEN [all_docs |-> Append(st.all_docs, LabeledDoc(st.chunk_counter, doc_content)),
             seen_docs |-> st.seen_docs \cup {doc_content},
             chunk_counter |-> st.chunk_counter + 1]
       ELSE st

\* the inner loop without its break: every ranked result is visited
RECURSIVE CtxInnerNoBreak(_, _, _, _)
CtxInnerNoBreak(st, results, i, k) ==
    IF i >= Len(results) THEN st
    ELSE CtxInnerNoBreak(
             IF results[i + 1].document \notin st.seen_docs
             THEN [all_docs |-> Append(st.all_docs,
                                       LabeledDoc(st.chunk_counter, results[i + 1].document)),
                   seen_docs |-> st.seen_docs \cup {results[i + 1].document},
                   chunk_counter |-> st.chunk_counter + 1]
             ELSE st,
             results, i + 1, k)

\* for i, doc_info in enumerate(results): if i >= top_k: break
RECURSIVE CtxInner(_, _, _, _)
CtxInner(st, results, i, k) ==
    IF i >= Len(results) \/ i >= k THEN st
    ELSE CtxInner(CtxVisit(st, results[i + 1]), results, i + 1, k)

\* for query, results in reranked_results.items()
RECURSIVE CtxOuter(_, _, _)
CtxOuter(st, items, k) ==
    IF items = <<>> THEN st
    ELSE CtxOuter(CtxInner(st, Head(items).results, 0, k), Tail(items), k)

\* the locals when the loops are over
PrepareContextLocals(items, k) == CtxOuter(CtxStart, items, k)

\* prepare_context(reranked_results, top_k)
PrepareContext(items, k) == Join(PrepareContextLocals(items, k).all_docs)

\* Ranked lists under one key: what rerank returns without a credential.
RankedLists == {FallbackRanking(d) : d \in DocLists}

\* Mappings of at most two keys, as their items() in insertion order.
ResultMappings ==
    {<<>>}
    \cup {<<[query |-> q, results |-> r]>> : q \in Queries, r \in RankedLists}
    \cup UNION {{<<[query |-> qq[1], results |-> r1], [query |-> qq[2], results |-> r2]>> :
                    r1 \in RankedLists, r2 \in RankedLists} :
                 qq \in {p \in Queries \X Queries : p[1] # p[2]}}

CtxInit ==
    /\ reranked_results = <<>>
    /\ top_k = 0
    /\ all_docs = <<>>
    /\ seen_docs = {}
    /\ chunk_counter = 1
    /\ context = ""
    /\ ctx_calls = 0

\* one call of prepare_context, from entry to return
CtxCall ==
    /\ ctx_calls < MaxCtxCalls
    /\ \E items \in ResultMappings, k \in 0..MaxTopK :
         LET fin == PrepareContextLocals(items, k)
         IN /\ reranked_results' = items
            /\ top_k' = k
            /\ all_docs' = fin.all_docs
            /\ seen_docs' = fin.seen_docs
            /\ chunk_counter' = fin.chunk_counter
            /\ context' = Join(fin.all_docs)
    /\ ctx_calls' = ctx_calls + 1
    /\ UNCHANGED <<sqVars, rrVars, pipeVars, gaVars>>

CtxNext == CtxCall

\* The texts within the first top_k results of each key, in mapping-then-rank
\* order.
RECURSIVE Window(_, _)
Window(items, k) ==
    IF items = <<>> THEN <<>>
    ELSE [i \in 1..Min(Max(k, 0), Len(Head(items).results)) |->
             Head(items).results[i].document]
         \o Window(Tail(items), k)

FirstAt(w, t) == CHOOSE i \in 1..Len(w) : w[i] = t /\ \A j \in 1..(i - 1) : w[j] # t

\* the position of t's first occurrence among the distinct texts of w
FirstSeenPosition(w, t) ==
    Cardinality({u \in Texts : InList(u, w) /\ FirstAt(w, u) <= FirstAt(w, t)})

\* the blocks of the output that carry text t
BlocksOf(t) ==
    {i \in 1..Len(all_docs) :
        \E x \in 1..(Len(all_docs) + 1) : all_docs[i] = LabeledDoc(x, t)}

\* all texts under all keys, at any rank
AllTexts(items) ==
    UNION {{items[e].results[i].document : i \in 1..Len(items[e].results)} :
              e \in 1..Len(items)}

\* C4: a text within the first top_k results of some key (of several keys, or
\* twice under one) has exactly one block, labelled with the position of its
\* first occurrence among the distinct texts in mapping-then-rank order.
C4_DedupFirstSeen ==
    ctx_calls > 0 =>
        LET w == Window(reranked_results, top_k)
        IN \A t \in Texts :
             InList(t, w) =>
                /\ Cardinality(BlocksOf(t)) = 1
                /\ \A i \in BlocksOf(t) :
                     all_docs[i] = LabeledDoc(FirstSeenPosition(w, t), t)

\* the same text under two keys, after another text: one block, label 2
C4_Witness ==
    /\ ctx_calls > 0
    /\ Len(reranked_results) = 2
    /\ top_k = 2
    /\ reranked_results[1].results = FallbackRanking(<<"A", "B">>)
    /\ reranked_results[2].results = FallbackRanking(<<"B", "A">>)
    /\ all_docs = <<LabeledDoc(1, "A"), LabeledDoc(2, "B")>>

\* C5: for top_k >= 0 the number of blocks is at most min(number of keys * top_k,
\* number of distinct texts under all keys), and every block carries a text that
\* stands at a rank below top_k under some key.
C5_BlockCountBounded ==
    ctx_calls > 0 =>
        /\ Len(all_docs) <= Min(Len(reranked_results) * top_k,
                                Cardinality(AllTexts(reranked_results)))
        /\ \A b \in 1..Len(all_docs) :
             \E e \in 1..Len(reranked_results) :
                \E i \in 1..Min(top_k, Len(reranked_results[e].results)) :
                   \E x \in 1..(Len(all_docs) + 1) :
                      all_docs[b] = LabeledDoc(x, reranked_results[e].results[i].document)

\* a text ranked at top_k or below under its only key is left out
C5_Witness ==
    /\ ctx_calls > 0
    /\ top_k = 1
    /\ Len(reranked_results) = 2
    /\ reranked_results[1].results = FallbackRanking(<<"A", "B">>)
    /\ reranked_results[2].results = FallbackRanking(<<"A">>)
    /\ all_docs = <<LabeledDoc(1, "A")>>

\* the output for blocks labelled 1, 2, ... carrying the given texts
RECURSIVE ExpectedContext(_, _)
ExpectedContext(texts, from) ==
    IF texts = <<>> THEN ""
    ELSE "[Chunk " \o ToString(from) \o "]:\n" \o Head(texts)
         \o (IF Len(texts) = 1 THEN "" ELSE "\n\n---\n\n")
         \o ExpectedContext(Tail(texts), from + 1)

\* C6: the labels of the output are 1, 2, ..., m in output order, each block is
\* "[Chunk {label}]:\n{text}", blocks are joined by "\n\n---\n\n"; ranked
\* fallback results [A, B] with top_k = 2 give
\* "[Chunk 1]:\nA\n\n---\n\n[Chunk 2]:\nB"; every call, a second one too,
\* starts at label 1.
C6_SequentialLabels ==
    ctx_calls > 0 =>
        /\ \E texts \in UNION {[1..m -> Texts] : m \in {Len(all_docs)}} :
             /\ \A i \in 1..Len(all_docs) :
                  all_docs[i] = "[Chunk " \o ToString(i) \o "]:\n" \o texts[i]
             /\ context = ExpectedContext(texts, 1)
        /\ (/\ Len(reranked_results) = 1
            /\ reranked_results[1].results = FallbackRanking(<<"A", "B">>)
            /\ top_k = 2)
           => context = "[Chunk 1]:\nA\n\n---\n\n[Chunk 2]:\nB"

\* the second call of a behaviour, on the scenario's input
C6_Witness ==
    /\ ctx_calls = 2
    /\ Len(reranked_results) = 1
    /\ reranked_results[1].results = FallbackRanking(<<"A", "B">>)
    /\ top_k = 2
    /\ context = "[Chunk 1]:\nA\n\n---\n\n[Chunk 2]:\nB"

\* no prepare_context call made
CtxIdle == CtxInit

-----------------------------------------------------------------------------
(* VectorStore (rag_pipeline/vector_store.py) *)

Chunk(text, src) == [page_content |-> text, source |-> src]

NUM_SUBQUERIES == 3
TOP_N_INITIAL == 10
TOP_K_RERANKED == 5
TOP_K == 5

\* Chunks the document processor may produce: two files, one text in both.
ChunkSet == {Chunk("A", "f1"), Chunk("B", "f1"), Chunk("A", "f2")}

\* What a documents directory may hold, as the chunks of its files in order.
Corpora ==
    {<<>>} \cup {<<c>> : c \in ChunkSet} \cup {<<c, d>> : c, d \in ChunkSet}

\* self.index = None
NoIndex == [built |-> FALSE, docs |-> <<>>]

\* no directory at FAISS_INDEX_PATH
Absent == [state |-> "absent", docs |-> <<>>]

\* a directory at FAISS_INDEX_PATH that FAISS.load_local rejects
Corrupt == [state |-> "corrupt", docs |-> <<>>]

Saved(docs) == [state |-> "valid", docs |-> docs]

\* create_index: the in-memory index is replaced
CreateIndex(docs) == [built |-> TRUE, docs |-> docs]

\* save_index: raises ValueError without an index, else writes it
SaveIndex(idx, disk) ==
    IF ~idx.built THEN [raised |-> TRUE, persisted |-> disk]
    ELSE [raised |-> FALSE, persisted |-> Saved(idx.docs)]

\* load_index that takes whatever lies at the path for an index
LoadIndexUnchecked(idx, disk) ==
    IF disk.state = "absent" THEN [ok |-> FALSE, index |-> idx]
    ELSE [ok |-> TRUE, index |-> [built |-> TRUE, docs |-> disk.docs]]

\* load_index: False when the path is absent or load_local raises
LoadIndex(idx, disk) ==
    IF disk.state = "absent" THEN [ok |-> FALSE, index |-> idx]
    ELSE IF disk.state = "corrupt" THEN [ok |-> FALSE, index |-> idx]
    ELSE [ok |-> TRUE, index |-> CreateIndex(disk.docs)]

\* The orders in which similarity_search may return the k nearest of docs: the
\* embedding is opaque, so every choice of min(k, len) distinct positions in
\* every order.
SimilarOrders(docs, k) ==
    LET n == Min(k, Len(docs))
        picks == {p \in [1..n -> 1..Len(docs)] :
                     \A i, j \in 1..n : i # j => p[i] # p[j]}
    IN {[i \in 1..n |-> docs[p[i]]] : p \in picks}

\* search: raises ValueError without an index
SearchRaises(idx) == ~idx.built

\* results[query] = ... on a dict kept as its items() in insertion order
Put(items, key, value) ==
    IF \E i \in 1..Len(items) : items[i].query = key
    THEN [i \in 1..Len(items) |->
            IF items[i].query = key THEN [query |-> key, results |-> value]
            ELSE items[i]]
    ELSE Append(items, [query |-> key, results |-> value])

-----------------------------------------------------------------------------
(* LLMUtils: extract_rationales, generate_response *)

\* extract_rationales without its credential guard
ExtractRationalesUnguarded(has_client, q, outcome) ==
    IF outcome.error THEN Raised ELSE Returned(Strip(outcome.content))

\* extract_rationales on what the generation service did: the query unchanged
\* without a credential; the service's text, stripped; or its error, uncaught
ExtractRationales(has_client, q, outcome) ==
    IF ~has_client THEN Returned(q)
    ELSE IF outcome.error THEN Raised
    ELSE Returned(Strip(outcome.content))

NoKeySentinel ==
    "Error: OPENAI_API_KEY not set. Please set the environment variable to generate responses."

\* generate_response without its credential guard: the request is made with
\* no client and fails
GenerateResponseUnguarded(has_client, q, ctx, outcome) ==
    IF ~has_client \/ outcome.error THEN [raised |-> TRUE, value |-> "", sent |-> <<ctx>>]
    ELSE [raised |-> FALSE, value |-> outcome.content, sent |-> <<ctx>>]

\* generate_response(query, context) of rag_pipeline; sent: the contexts put
\* into requests to the generation service
GenerateResponse(has_client, q, ctx, outcome) ==
    IF ~has_client THEN [raised |-> FALSE, value |-> NoKeySentinel, sent |-> <<>>]
    ELSE IF outcome.error THEN [raised |-> TRUE, value |-> "", sent |-> <<ctx>>]
    ELSE [raised |-> FALSE, value |-> outcome.content, sent |-> <<ctx>>]

NoKeySentinelList == "No OPENAI_API_KEY set. Cannot generate response."

MAX_CONTEXT_TOKENS == 14000

\* The flattened context is a sequence of tokens: a token is a run of
\* whitespace or a run of other characters.  The tokens of a fragment text:
DocTokens(text) ==
    CASE text = "" -> <<>>
      [] text = "A B" -> <<"A", " ", "B">>
      [] text = "A\nB C" -> <<"A", "\n", "B", " ", "C">>
      [] OTHER -> <<text>>

IsWhitespace(tok) == tok \in {" ", "\n", "\n\n"}

\* context += f"Source: {doc.get('source', 'N/A')}\nContent: {doc['document']}\n\n"
RECURSIVE FlattenContext(_)
FlattenContext(docs) ==
    IF docs = <<>> THEN <<>>
    ELSE <<"Source:", " ", Head(docs).source, "\n", "Content:", " ">>
         \o DocTokens(Head(docs).document) \o <<"\n\n">>
         \o FlattenContext(Tail(docs))

\* str.split(): the maximal runs of non-whitespace characters
RECURSIVE SplitFrom(_, _, _)
SplitFrom(words, cur, toks) ==
    IF toks = <<>> THEN (IF cur = "" THEN words ELSE Append(words, cur))
    ELSE IF IsWhitespace(Head(toks))
         THEN SplitFrom(IF cur = "" THEN words ELSE Append(words, cur), "", Tail(toks))
         ELSE SplitFrom(words, cur \o Head(toks), Tail(toks))

PySplit(toks) == SplitFrom(<<>>, "", toks)

\* " ".join(words)
RECURSIVE JoinSpace(_)
JoinSpace(words) ==
    IF words = <<>> THEN <<>>
    ELSE IF Len(words) = 1 THEN <<words[1]>>
    ELSE <<words[1], " ">> \o JoinSpace(Tail(words))

\* the truncation that keeps one word more than the limit
TruncateContextOneMore(ctx, limit) ==
    IF Len(PySplit(ctx)) > limit
    THEN JoinSpace(PySliceTo(PySplit(ctx), limit + 1))
    ELSE ctx

\* if len(context.split()) > MAX_CONTEXT_TOKENS:
\*     context = " ".join(context.split()[:MAX_CONTEXT_TOKENS])
TruncateContext(ctx, limit) ==
    IF Len(PySplit(ctx)) > limit
    THEN JoinSpace(PySliceTo(PySplit(ctx), limit))
    ELSE ctx

\* the context generate_response of simple_rag puts into its request
ListContext(docs, limit) == TruncateContext(FlattenContext(docs), limit)

\* generate_response of simple_rag without its credential guard
GenerateResponseListUnguarded(has_client, q, docs, limit, outcome) ==
    IF ~has_client \/ outcome.error
    THEN [raised |-> TRUE, value |-> "", sent |-> <<ListContext(docs, limit)>>]
    ELSE [raised |-> FALSE, value |-> outcome.content,
          sent |-> <<ListContext(docs, limit)>>]

\* generate_response(query, context_docs) of simple_rag, with MAX_CONTEXT_TOKENS
\* configured as limit
GenerateResponseList(has_client, q, docs, limit, outcome) ==
    IF ~has_client THEN [raised |-> FALSE, value |-> NoKeySentinelList, sent |-> <<>>]
    ELSE IF outcome.error
         THEN [raised |-> TRUE, value |-> "", sent |-> <<ListContext(docs, limit)>>]
         ELSE [raised |-> FALSE, value |-> outcome.content,
               sent |-> <<ListContext(docs, limit)>>]

NoChunksMessage ==
    "Error: No documents have been processed. Please initialize the pipeline."

-----------------------------------------------------------------------------
(* The pipelines: RDRagPipeline, SimpleRAGPipeline, RAGWithRerankerPipeline *)

Variants == {"rd_rag", "simple", "reranker"}

\* the variants that hold a VectorStore
HasVectorStore == variant \in {"rd_rag", "simple"}

\* no call is in progress: a new call may start
Callable == pc \in {"new", "ready", "answered", "raised"}

\* What the generation service may do with a request whose completions are
\* contents: fail, or send one of them.  Without a credential nothing is sent.
GenError(content) == [error |-> TRUE, content |-> content]

GenOutcomes(has_client, contents, none) ==
    IF has_client
    THEN {GenError(none)} \cup {[error |-> FALSE, content |-> c] : c \in contents}
    ELSE {[error |-> FALSE, content |-> none]}

\* Completions for the rationale request.
RationaleTexts == {<<" ", "r", " ">>}

\* Completions for the two subquery requests: three list items; two lines
\* starting 'Query:'; the same such line twice; no list item at all.
PipelineResponses ==
    { << <<" ", "-", " ", "a", " ">>, <<"*", "b">>, <<"1", ".", "b">> >>,
      << <<"Query:", " ", "a">>, <<"Query:", " ", "b">> >>,
      << <<"Query:", " ", "a">>, <<"Query:", " ", "a">> >>,
      << <<"a">> >> }

\* Completions for the answer request.
Answers == {"answer"}

\* What the rerank service may do with a request of a pipeline: fail, rank the
\* documents in reverse order (at most k of them), name an index past the end,
\* or name the index -1, which documents[...] takes for the last document.
Reversed(docs, k) ==
    LET n == IF k = NoneK THEN Len(docs) ELSE Min(k, Len(docs))
    IN [i \in 1..n |-> [index |-> Len(docs) - i, relevance_score |-> 10 - i]]

PipelineOutcomes(has_client, docs, k) ==
    IF has_client
    THEN {ServiceError,
          [error |-> FALSE, results |-> Reversed(docs, k)],
          [error |-> FALSE, results |-> <<[index |-> Len(docs), relevance_score |-> 9]>>],
          [error |-> FALSE, results |-> <<[index |-> -1, relevance_score |-> 9]>>]}
    ELSE {NotAsked}

\* process_directory / process_file on a directory holding dir
Ingest(dir, file_name) ==
    IF file_name # "" THEN SelectSeq(dir, LAMBDA c : c.source = file_name) ELSE dir

\* initialize without the removal of the persisted index
RemoveNever(reinitialize, disk) == disk

\* if reinitialize and os.path.exists(FAISS_INDEX_PATH): shutil.rmtree(...)
RemoveOnReinitialize(reinitialize, disk) ==
    IF reinitialize /\ disk.state # "absent" THEN Absent ELSE disk

\* [doc.page_content for doc in docs]
PageContents(docs) == [i \in 1..Len(docs) |-> docs[i].page_content]

\* format_results_for_reranker
FormatResultsForReranker(items) ==
    [i \in 1..Len(items) |->
        [query |-> items[i].query, results |-> PageContents(items[i].results)]]

\* the context_docs of the simple variant
RetrievedContextDocs(docs) ==
    [i \in 1..Len(docs) |-> [document |-> docs[i].page_content, source |-> docs[i].source]]

\* the context_docs of the reranker variant: the source of original_docs[index]
RerankedContextDocs(ranked, chunks) ==
    [i \in 1..Len(ranked) |->
        [document |-> ranked[i].document, source |-> PyGet(chunks, ranked[i].index).source]]

\* what an initialize call did: its reinitialize argument, what it found at
\* FAISS_INDEX_PATH on entry, whether load_index succeeded, whether ingestion
\* ran, and how many chunks ingestion gave
NoInitLog ==
    [reinitialize |-> FALSE, found |-> "absent", loaded |-> FALSE, ingested |-> FALSE,
     chunks |-> 0]

\* the locals of process_query before its first statement
PqLocalsClear ==
    /\ pq_rationales = NoText
    /\ pq_subqueries = <<>>
    /\ initial_results = <<>>
    /\ pq_reranked = <<>>
    /\ context_docs = <<>>
    /\ pq_context = ""
    /\ response = ""
    /\ pq_i = 0
    /\ gen_requests = 0
    /\ error = ""
    /\ pq_calls = <<>>

\* the state after construction: no index in memory, no resident chunks, and
\* whatever an earlier process left at FAISS_INDEX_PATH
PipeInit ==
    /\ variant \in Variants
    /\ api_key \in BOOLEAN
    /\ client \in BOOLEAN
    /\ persisted \in {Absent, Corrupt} \cup {Saved(d) : d \in Corpora \ {<<>>}}
    /\ index = NoIndex
    /\ all_chunks = <<>>
    /\ pc = "new"
    /\ init_args = [reinitialize |-> FALSE, file_name |-> ""]
    /\ init_log = NoInitLog
    /\ initialized = FALSE
    /\ query = NoText
    /\ PqLocalsClear

pqLocals == <<pq_rationales, pq_subqueries, initial_results, pq_reranked, context_docs,
              pq_context, response, pq_i, gen_requests, error, pq_calls>>

\* the pipeline is not part of the behaviour
PipeIdle ==
    /\ variant = "rd_rag"
    /\ persisted = Absent
    /\ index = NoIndex
    /\ all_chunks = <<>>
    /\ pc = "none"
    /\ init_args = [reinitialize |-> FALSE, file_name |-> ""]
    /\ init_log = NoInitLog
    /\ initialized = FALSE
    /\ query = NoText
    /\ PqLocalsClear

\* the frame of a process_query call that is over is gone when the next call
\* of the pipeline starts
PqDiscard ==
    /\ query' = NoText
    /\ pq_rationales' = NoText
    /\ pq_subqueries' = <<>>
    /\ initial_results' = <<>>
    /\ pq_reranked' = <<>>
    /\ context_docs' = <<>>
    /\ pq_context' = ""
    /\ response' = ""
    /\ pq_i' = 0
    /\ gen_requests' = 0
    /\ error' = ""
    /\ pq_calls' = <<>>

\* initialize of the variants with a vector store, up to the load attempt:
\* the persisted index is removed when reinitialize is set
InitializeCall ==
    /\ Callable
    /\ HasVectorStore
    /\ \E reinitialize \in BOOLEAN, file_name \in {"", "f1"} :
         /\ file_name # "" => variant = "rd_rag"
         /\ init_args' = [reinitialize |-> reinitialize, file_name |-> file_name]
         /\ init_log' = [reinitialize |-> reinitialize,
                         found |-> persisted.state,
                         loaded |-> FALSE, ingested |-> FALSE, chunks |-> 0]
         /\ persisted' = RemoveOnReinitialize(reinitialize, persisted)
    /\ pc' = "init_load"
    /\ PqDiscard
    /\ UNCHANGED <<variant, api_key, client, index, all_chunks, initialized>>
    /\ UNCHANGED <<sqLocals, rrLocals, ctxVars, gaVars>>

\* initialize that goes on to ingestion whatever load_index returned
InitializeLoadThenIngest ==
    /\ pc = "init_load"
    /\ pc' = "init_ingest"
    /\ index' = LoadIndex(index, persisted).index
    /\ UNCHANGED <<variant, api_key, client, persisted, all_chunks, init_args, query,
                   init_log, initialized>>
    /\ UNCHANGED pqLocals
    /\ UNCHANGED <<sqLocals, rrLocals, ctxVars, gaVars>>

\* if not self.vector_store.load_index(FAISS_INDEX_PATH)
InitializeLoad ==
    /\ pc = "init_load"
    /\ LET r == LoadIndex(index, persisted)
       IN /\ index' = r.index
          /\ IF r.ok
             THEN /\ pc' = "ready"
                  /\ init_log' = [init_log EXCEPT !.loaded = TRUE]
                  /\ initialized' = TRUE
             ELSE /\ pc' = "init_ingest"
                  /\ UNCHANGED <<init_log, initialized>>
    /\ UNCHANGED <<variant, api_key, client, persisted, all_chunks, init_args, query>>
    /\ UNCHANGED pqLocals
    /\ UNCHANGED <<sqLocals, rrLocals, ctxVars, gaVars>>

\* the branch taken when loading fails: ingestion, then create_index and
\* save_index when there are documents
InitializeIngest ==
    /\ pc = "init_ingest"
    /\ \E dir \in Corpora :
         LET docs == Ingest(dir, init_args.file_name)
             built == CreateIndex(docs)
         IN /\ IF docs # <<>>
               THEN /\ index' = built
                    /\ persisted' = SaveIndex(built, persisted).persisted
               ELSE UNCHANGED <<index, persisted>>
            /\ init_log' = [init_log EXCEPT !.ingested = TRUE, !.chunks = Len(docs)]
    /\ initialized' = TRUE
    /\ pc' = "ready"
    /\ UNCHANGED <<variant, api_key, client, all_chunks, init_args, query>>
    /\ UNCHANGED pqLocals
    /\ UNCHANGED <<sqLocals, rrLocals, ctxVars, gaVars>>

\* initialize of the reranker variant: the chunks are kept in memory
InitializeChunks ==
    /\ Callable
    /\ variant = "reranker"
    /\ \E reinitialize \in BOOLEAN, dir \in Corpora :
         /\ init_args' = [reinitialize |-> reinitialize, file_name |-> ""]
         /\ all_chunks' = Ingest(dir, "")
    /\ init_log' = [NoInitLog EXCEPT !.reinitialize = init_args'.reinitialize,
                                     !.ingested = TRUE,
                                     !.chunks = Len(all_chunks')]
    /\ initialized' = TRUE
    /\ pc' = "ready"
    /\ PqDiscard
    /\ UNCHANGED <<variant, api_key, client, persisted, index>>
    /\ UNCHANGED <<sqLocals, rrLocals, ctxVars, gaVars>>

\* a process_query step that drops the in-memory index
PqFrameDropsIndex ==
    /\ index' = NoIndex
    /\ UNCHANGED <<variant, api_key, client, persisted, all_chunks,
                   init_args, init_log, initialized>>
    /\ UNCHANGED <<sqLocals, rrLocals, ctxVars, gaVars>>

\* the frame of a process_query step: the pipeline object, the disk and the
\* unrelated calls are left alone
PqFrame ==
    /\ UNCHANGED <<variant, api_key, client, persisted, index, all_chunks,
                   init_args, init_log, initialized>>
    /\ UNCHANGED <<sqLocals, rrLocals, ctxVars, gaVars>>

\* the call raises: the exception leaves process_query
PqRaise(what) == pc' = "raised" /\ error' = what

\* process_query is entered
PqStart ==
    /\ Callable
    /\ \E q \in Queries : query' = q
    /\ pq_rationales' = NoText
    /\ pq_subqueries' = <<>>
    /\ initial_results' = <<>>
    /\ pq_reranked' = <<>>
    /\ context_docs' = <<>>
    /\ pq_context' = ""
    /\ pq_i' = 0
    /\ gen_requests' = 0
    /\ error' = ""
    /\ pq_calls' = <<>>
    /\ IF variant = "rd_rag" THEN pc' = "extract" /\ response' = ""
       ELSE IF variant = "simple" THEN pc' = "search" /\ response' = ""
       ELSE IF all_chunks = <<>>
            THEN pc' = "answered" /\ response' = NoChunksMessage
            ELSE pc' = "rerank" /\ response' = ""
    /\ PqFrame

\* rd_rag step 1: rationales = self.llm_utils.extract_rationales(query)
PqExtract ==
    /\ pc = "extract"
    /\ \E outcome \in GenOutcomes(api_key, RationaleTexts, NoText) :
         LET r == ExtractRationales(api_key, query, outcome)
         IN IF r.raised
            THEN PqRaise("generation") /\ UNCHANGED pq_rationales
            ELSE pc' = "subqueries" /\ pq_rationales' = r.value /\ UNCHANGED error
    /\ gen_requests' = gen_requests + (IF api_key THEN 1 ELSE 0)
    /\ UNCHANGED <<query, pq_subqueries, initial_results, pq_reranked, context_docs,
                   pq_context, response, pq_i>>
    /\ UNCHANGED pq_calls
    /\ PqFrame

\* rd_rag step 2: subqueries = self.llm_utils.generate_subqueries(rationales)
PqSubqueries ==
    /\ pc = "subqueries"
    /\ \E o1 \in GenOutcomes(api_key, PipelineResponses, <<NoText>>),
          o2 \in GenOutcomes(api_key, PipelineResponses, <<NoText>>) :
         LET g == GenerateSubqueries(api_key, pq_rationales, NUM_SUBQUERIES,
                                     o1.content, o2.content)
         IN IF o1.error
            THEN /\ PqRaise("generation")
                 /\ gen_requests' = gen_requests + 1
                 /\ UNCHANGED pq_subqueries
            ELSE IF g.requests = 2 /\ o2.error
            THEN /\ PqRaise("generation")
                 /\ gen_requests' = gen_requests + 2
                 /\ UNCHANGED pq_subqueries
            ELSE /\ pc' = "search"
                 /\ pq_subqueries' = g.subqueries
                 /\ gen_requests' = gen_requests + g.requests
                 /\ UNCHANGED error
    /\ UNCHANGED <<query, pq_rationales, initial_results, pq_reranked, context_docs,
                   pq_context, response, pq_i>>
    /\ UNCHANGED pq_calls
    /\ PqFrame

\* rd_rag step 3, one pass of the loop of search_for_multiple_queries
PqSearch ==
    /\ pc = "search"
    /\ variant = "rd_rag"
    /\ pq_i < Len(pq_subqueries)
    /\ IF SearchRaises(index)
       THEN PqRaise("no index") /\ UNCHANGED <<initial_results, pq_i>>
       ELSE /\ \E docs \in SimilarOrders(index.docs, TOP_N_INITIAL) :
                 initial_results' = Put(initial_results, pq_subqueries[pq_i + 1], docs)
            /\ pq_i' = pq_i + 1
            /\ UNCHANGED <<pc, error>>
    /\ UNCHANGED <<query, pq_rationales, pq_subqueries, pq_reranked, context_docs,
                   pq_context, response, gen_requests>>
    /\ pq_calls' = Append(pq_calls, [op |-> "search", query |-> pq_subqueries[pq_i + 1]])
    /\ PqFrame

\* the search loop is over and the rerank step is left out
PqSearchDoneSkipsRerank ==
    /\ pc = "search"
    /\ variant = "rd_rag"
    /\ pq_i = Len(pq_subqueries)
    /\ pc' = "context"
    /\ pq_i' = 0
    /\ UNCHANGED <<query, pq_rationales, pq_subqueries, initial_results, pq_reranked,
                   context_docs, pq_context, response, gen_requests, error>>
    /\ UNCHANGED pq_calls
    /\ PqFrame

\* rd_rag: the search loop is over; step 4 formats the results
PqSearchDone ==
    /\ pc = "search"
    /\ variant = "rd_rag"
    /\ pq_i = Len(pq_subqueries)
    /\ pc' = "rerank"
    /\ pq_i' = 0
    /\ UNCHANGED <<query, pq_rationales, pq_subqueries, initial_results, pq_reranked,
                   context_docs, pq_context, response, gen_requests, error>>
    /\ UNCHANGED pq_calls
    /\ PqFrame

\* rd_rag step 5, one pass of the loop of rerank_for_multiple_queries
PqRerank ==
    /\ pc = "rerank"
    /\ variant = "rd_rag"
    /\ pq_i < Len(initial_results)
    /\ LET item == FormatResultsForReranker(initial_results)[pq_i + 1]
       IN \E outcome \in PipelineOutcomes(client, item.results, NoneK) :
            LET r == Rerank(client, item.query, item.results, NoneK, outcome)
            IN IF r.raised
               THEN PqRaise("rerank") /\ UNCHANGED <<pq_reranked, pq_i>>
               ELSE /\ pq_reranked' = Put(pq_reranked, item.query, r.value)
                    /\ pq_i' = pq_i + 1
                    /\ UNCHANGED <<pc, error>>
    /\ UNCHANGED <<query, pq_rationales, pq_subqueries, initial_results, context_docs,
                   pq_context, response, gen_requests>>
    /\ pq_calls' = Append(pq_calls, [op |-> "rerank", query |-> initial_results[pq_i + 1].query])
    /\ PqFrame

\* rd_rag: the rerank loop is over
PqRerankDone ==
    /\ pc = "rerank"
    /\ variant = "rd_rag"
    /\ pq_i = Len(initial_results)
    /\ pc' = "context"
    /\ pq_i' = 0
    /\ UNCHANGED <<query, pq_rationales, pq_subqueries, initial_results, pq_reranked,
                   context_docs, pq_context, response, gen_requests, error>>
    /\ UNCHANGED pq_calls
    /\ PqFrame

\* rd_rag step 6: context = prepare_context(reranked_results, top_k=TOP_K_RERANKED)
PqContext ==
    /\ pc = "context"
    /\ pq_context' = PrepareContext(pq_reranked, TOP_K_RERANKED)
    /\ pc' = "answer"
    /\ UNCHANGED <<query, pq_rationales, pq_subqueries, initial_results, pq_reranked,
                   context_docs, response, pq_i, gen_requests, error>>
    /\ UNCHANGED pq_calls
    /\ PqFrame

\* rd_rag step 7: response = generate_response(query, context); return response
PqAnswer ==
    /\ pc = "answer"
    /\ variant = "rd_rag"
    /\ \E outcome \in GenOutcomes(api_key, Answers, "") :
         LET r == GenerateResponse(api_key, query, pq_context, outcome)
         IN IF r.raised
            THEN PqRaise("generation") /\ UNCHANGED response
            ELSE pc' = "answered" /\ response' = r.value /\ UNCHANGED error
    /\ gen_requests' = gen_requests + (IF api_key THEN 1 ELSE 0)
    /\ UNCHANGED <<query, pq_rationales, pq_subqueries, initial_results, pq_reranked,
                   context_docs, pq_context, pq_i>>
    /\ UNCHANGED pq_calls
    /\ PqFrame

\* simple step 1: retrieved_docs = search(query, k=TOP_K), then context_docs
PqSimpleSearch ==
    /\ pc = "search"
    /\ variant = "simple"
    /\ IF SearchRaises(index)
       THEN PqRaise("no index") /\ UNCHANGED <<initial_results, context_docs>>
       ELSE /\ \E docs \in SimilarOrders(index.docs, TOP_K) :
                 /\ initial_results' = Put(<<>>, query, docs)
                 /\ context_docs' = RetrievedContextDocs(docs)
            /\ pc' = "answer"
            /\ UNCHANGED error
    /\ UNCHANGED <<query, pq_rationales, pq_subqueries, pq_reranked, pq_context,
                   response, pq_i, gen_requests>>
    /\ pq_calls' = Append(pq_calls, [op |-> "search", query |-> query])
    /\ PqFrame

\* reranker step 1: rerank(query, doc_texts, top_k=TOP_K_RERANKED), then context_docs
PqRerankAll ==
    /\ pc = "rerank"
    /\ variant = "reranker"
    /\ LET doc_texts == PageContents(all_chunks)
       IN \E outcome \in PipelineOutcomes(client, doc_texts, TOP_K_RERANKED) :
            LET r == Rerank(client, query, doc_texts, TOP_K_RERANKED, outcome)
            IN IF r.raised
               THEN PqRaise("rerank") /\ UNCHANGED <<pq_reranked, context_docs>>
               ELSE /\ pq_reranked' = Put(<<>>, query, r.value)
                    /\ context_docs' = RerankedContextDocs(r.value, all_chunks)
                    /\ pc' = "answer"
                    /\ UNCHANGED error
    /\ UNCHANGED <<query, pq_rationales, pq_subqueries, initial_results, pq_context,
                   response, pq_i, gen_requests>>
    /\ pq_calls' = Append(pq_calls, [op |-> "rerank", query |-> query])
    /\ PqFrame

\* simple and reranker step 2: response = generate_response(query, context_docs)
PqAnswerList ==
    /\ pc = "answer"
    /\ variant \in {"simple", "reranker"}
    /\ \E outcome \in GenOutcomes(api_key, Answers, "") :
         LET r == GenerateResponseList(api_key, query, context_docs,
                                       MAX_CONTEXT_TOKENS, outcome)
         IN IF r.raised
            THEN PqRaise("generation") /\ UNCHANGED response
            ELSE pc' = "answered" /\ response' = r.value /\ UNCHANGED error
    /\ gen_requests' = gen_requests + (IF api_key THEN 1 ELSE 0)
    /\ UNCHANGED <<query, pq_rationales, pq_subqueries, initial_results, pq_reranked,
                   context_docs, pq_context, pq_i>>
    /\ UNCHANGED pq_calls
    /\ PqFrame

Next ==
    \/ InitializeCall
    \/ InitializeLoad
    \/ InitializeIngest
    \/ InitializeChunks
    \/ PqStart
    \/ PqExtract
    \/ PqSubqueries
    \/ PqSearch
    \/ PqSearchDone
    \/ PqRerank
    \/ PqRerankDone
    \/ PqContext
    \/ PqAnswer
    \/ PqSimpleSearch
    \/ PqRerankAll
    \/ PqAnswerList

-----------------------------------------------------------------------------
(* LLMUtils.generate_response called on its own *)

MaxContextLimit == 5 \* largest MAX_CONTEXT_TOKENS configured

\* Fragment texts of context_docs: none, one, two and three words.
GaTexts == {"", "A", "A B", "A\nB C"}

GaSources == {"f1", "f2"}

GaDocLists ==
    UNION {[1..k -> [document : GaTexts, source : GaSources]] : k \in 0..MaxDocs}

\* Contexts in the chunk-labelled string form, the empty one among them.
GaContexts ==
    {PrepareContext(<<[query |-> <<"a">>, results |-> r]>>, MaxTopK) : r \in RankedLists}

GaInit ==
    /\ ga_form \in {"string", "list"}
    /\ ga_query \in Queries
    /\ ga_context \in GaContexts
    /\ ga_docs \in GaDocLists
    /\ ga_limit \in 0..MaxContextLimit
    /\ ga_form = "string" => (ga_docs = <<>> /\ ga_limit = 0)
    /\ ga_form = "list" => ga_context = ""
    /\ ga_pc = "call"
    /\ ga_ret = [raised |-> FALSE, value |-> "", sent |-> <<>>]

\* generate_response(query, context) of rag_pipeline, from entry to return
GaCallString ==
    /\ ga_pc = "call"
    /\ ga_form = "string"
    /\ \E outcome \in GenOutcomes(api_key, Answers, "") :
         ga_ret' = GenerateResponse(api_key, ga_query, ga_context, outcome)
    /\ ga_pc' = "returned"
    /\ UNCHANGED <<ga_form, ga_query, ga_context, ga_docs, ga_limit>>
    /\ UNCHANGED <<sqVars, rrVars, ctxVars, pipeVars>>

\* generate_response(query, context_docs) of simple_rag, from entry to return
GaCallList ==
    /\ ga_pc = "call"
    /\ ga_form = "list"
    /\ \E outcome \in GenOutcomes(api_key, Answers, "") :
         ga_ret' = GenerateResponseList(api_key, ga_query, ga_docs, ga_limit, outcome)
    /\ ga_pc' = "returned"
    /\ UNCHANGED <<ga_form, ga_query, ga_context, ga_docs, ga_limit>>
    /\ UNCHANGED <<sqVars, rrVars, ctxVars, pipeVars>>

GaNext == GaCallString \/ GaCallList

\* no generate_response call followed on its own
GaIdle ==
    /\ ga_form = "string"
    /\ ga_query = NoText
    /\ ga_context = ""
    /\ ga_docs = <<>>
    /\ ga_limit = 0
    /\ ga_pc = "idle"
    /\ ga_ret = [raised |-> FALSE, value |-> "", sent |-> <<>>]

\* C11: with no generation credential generate_response returns, in the string
\* form and in the list form, the form's fixed sentinel string whatever the
\* query and the context are, does not raise, and sends nothing to the
\* generation service.
C11_SentinelWithoutCredential ==
    (ga_pc = "returned" /\ ~api_key) =>
        /\ ~ga_ret.raised
        /\ ga_ret.sent = <<>>
        /\ ga_form = "string" => ga_ret.value = NoKeySentinel
        /\ ga_form = "list" => ga_ret.value = NoKeySentinelList

\* the list form, on a context that is not empty
C11_Witness ==
    /\ ga_pc = "returned"
    /\ ~api_key
    /\ ga_form = "list"
    /\ Len(ga_docs) = 2
    /\ ga_ret.value = NoKeySentinelList

\* "Source: {source}\nContent: {document}\n\n" for each record, in input order
RECURSIVE SourceContentBlocks(_)
SourceContentBlocks(docs) ==
    IF docs = <<>> THEN <<>>
    ELSE <<"Source:", " ", docs[1].source, "\n", "Content:", " ">>
         \o DocTokens(docs[1].document) \o <<"\n\n">>
         \o SourceContentBlocks(Tail(docs))

\* the first n words of a context, as the words joined by single spaces
FirstWords(ctx, n) ==
    LET words == PySplit(ctx)
    IN JoinSpace([i \in 1..Min(n, Len(words)) |-> words[i]])

\* C20: in the list form (simple and reranker variants) with a credential, the
\* one context sent to the generation service has at most MAX_CONTEXT_TOKENS
\* whitespace-separated words: a flattened context above the limit is sent as
\* its first MAX_CONTEXT_TOKENS words, one at or below the limit is sent
\* unchanged, as the Source/Content blocks of the records in input order.
C20_ContextWithinWordLimit ==
    (ga_pc = "returned" /\ ga_form = "list" /\ api_key) =>
        /\ Len(ga_ret.sent) = 1
        /\ LET flat == SourceContentBlocks(ga_docs)
               sent == ga_ret.sent[1]
           IN /\ Len(PySplit(sent)) <= ga_limit
              /\ Len(PySplit(flat)) > ga_limit => sent = FirstWords(flat, ga_limit)
              /\ Len(PySplit(flat)) <= ga_limit => sent = flat

\* two records of eight words in all, cut to the first five
C20_Witness ==
    /\ ga_pc = "returned"
    /\ ga_form = "list"
    /\ api_key
    /\ ga_limit = 5
    /\ Len(ga_docs) = 2
    /\ Len(PySplit(SourceContentBlocks(ga_docs))) = 8
    /\ ga_ret.sent = << <<"Source:", " ", "f1", " ", "Content:", " ", "A", " ", "Source:">> >>

-----------------------------------------------------------------------------
(* Claims about the pipelines *)

\* initialize has loaded or built the index (vector-store variants) or the
\* chunk list (reranker variant)
Loaded == IF HasVectorStore THEN index.built ELSE initialized

ResponseStrings == {NoKeySentinel, NoKeySentinelList, NoChunksMessage} \cup Answers

InitializeOver == HasVectorStore /\ initialized /\ pc \notin {"init_load", "init_ingest"}

\* C9: initialize with reinitialize=True on an existing persisted index (valid
\* or corrupt) always runs ingestion and does not load: the persisted index is
\* gone before the load attempt, which reports absence.
C9_ReinitializeRebuilds ==
    /\ (pc = "init_load" /\ init_args.reinitialize) => persisted = Absent
    /\ (pc = "init_ingest" /\ init_log.reinitialize) => ~init_log.loaded
    /\ (InitializeOver /\ init_log.reinitialize /\ init_log.found # "absent") =>
          (init_log.ingested /\ ~init_log.loaded)

\* a valid persisted index was there, and the call rebuilt the index
C9_Witness ==
    /\ InitializeOver
    /\ pc = "ready"
    /\ init_log.reinitialize
    /\ init_log.found = "valid"
    /\ init_log.ingested
    /\ index.built
    /\ persisted = Saved(index.docs)

\* the rationale-driven call is past its decomposition
Decomposed == variant = "rd_rag" /\ pc \in {"search", "rerank", "context", "answer"}

\* C10: with no generation credential the query plan is a pass-through:
\* extract_rationales(q) is q, generate_subqueries(r, n) is [r] for every n, the
\* rationale-driven process_query searches with the one subquery equal to the
\* query, and no generation request is sent while decomposing.
C10_PassThroughPlan ==
    ~api_key =>
        /\ (variant = "rd_rag" /\ pc = "subqueries") =>
              /\ pq_rationales = query
              /\ gen_requests = 0
              /\ \A n \in 0..NUM_SUBQUERIES : \A r1, r2 \in PipelineResponses :
                    GenerateSubqueries(FALSE, pq_rationales, n, r1, r2)
                        = [subqueries |-> <<pq_rationales>>, requests |-> 0]
        /\ Decomposed =>
              /\ pq_rationales = query
              /\ pq_subqueries = <<query>>
              /\ gen_requests = 0
              /\ \A i \in 1..Len(initial_results) : initial_results[i].query = query
              /\ Len(initial_results) <= 1
              /\ (pc # "search" /\ index.built) => Len(initial_results) = 1

\* the search was made with the query itself, and nothing was asked of the
\* generation service
C10_Witness ==
    /\ ~api_key
    /\ variant = "rd_rag"
    /\ pc = "answer"
    /\ pq_subqueries = <<query>>
    /\ Len(initial_results) = 1
    /\ initial_results[1].query = query
    /\ gen_requests = 0

-----------------------------------------------------------------------------
(* Specifications *)

\* generate_subqueries on every input and every pair of responses
SubqInit == SqInit /\ RrIdle /\ CtxIdle /\ PipeIdle /\ GaIdle

SpecSubq == SubqInit /\ [][SqNext]_vars

\* rerank on every input and every service outcome
RerankInit == SqIdle /\ RrInit /\ CtxIdle /\ PipeIdle /\ GaIdle

SpecRerank == RerankInit /\ [][RrNext]_vars

\* prepare_context called repeatedly on every input
ContextInit == SqIdle /\ RrIdle /\ CtxInit /\ PipeIdle /\ GaIdle

SpecContext == ContextInit /\ [][CtxNext]_vars

\* generate_response of either form on every input and every service outcome
AnswerInit ==
    /\ api_key \in BOOLEAN
    /\ SqLocalsIdle
    /\ RrIdle
    /\ CtxIdle
    /\ PipeIdle
    /\ GaInit

SpecAnswer == AnswerInit /\ [][GaNext]_vars

\* a pipeline of any variant, with any credentials, from construction on
Init == PipeInit /\ SqLocalsIdle /\ RrLocalsIdle /\ CtxIdle /\ GaIdle

Spec == Init /\ [][Next]_vars

-----------------------------------------------------------------------------
(* Claims about the course of process_query *)

\* a rationale-driven process_query call is under way or has returned
InRun ==
    /\ variant = "rd_rag"
    /\ pc \in {"extract", "subqueries", "search", "rerank", "context", "answer", "answered"}

\* The state of the run: 0 IDLE (nothing produced yet), 1 DECOMPOSED (the
\* subqueries are there), 2 RETRIEVED, 3 RERANKED, 4 CONTEXT_BUILT, 5 ANSWERED.
Stage ==
    CASE pc \in {"extract", "subqueries"} -> 0
      [] pc = "search" -> 1
      [] pc = "rerank" -> 2
      [] pc = "context" -> 3
      [] pc = "answer" -> 4
      [] OTHER -> 5

\* what a run holds in each state: nothing that a later state produces
StageArtifacts ==
    variant = "rd_rag" =>
        /\ pc = "extract" => PqLocalsClear
        /\ pc = "subqueries" =>
              (pq_subqueries = <<>> /\ initial_results = <<>> /\ pq_reranked = <<>>
               /\ pq_context = "" /\ response = "")
        /\ pc = "search" => (pq_reranked = <<>> /\ pq_context = "" /\ response = "")
        /\ pc = "rerank" =>
              (Len(pq_calls) >= Len(pq_subqueries) /\ pq_context = "" /\ response = "")
        /\ pc = "context" =>
              (Len(pq_reranked) = Len(initial_results) /\ pq_context = "" /\ response = "")
        /\ pc = "answer" => response = ""

\* one step of a run stays in its state or enters the next one; a run begins
\* in IDLE with the locals of process_query clear, whatever came before
StageStep ==
    /\ (InRun /\ InRun') =>
          \/ Stage' = Stage
          \/ Stage' = Stage + 1
          \/ pc = "answered" /\ pc' = "extract"
    /\ (variant = "rd_rag" /\ pc' = "answered") => (pc = "answer" \/ pc = "answered")
    /\ (variant = "rd_rag" /\ pc' = "extract") => (Callable /\ PqLocalsClear')

\* C12: a rationale-driven process_query goes through IDLE, DECOMPOSED,
\* RETRIEVED, RERANKED, CONTEXT_BUILT, ANSWERED in that order, entering each at
\* most once and skipping none; it returns only from ANSWERED; and the next
\* call starts in IDLE with no rationale, subqueries, result sets or context
\* left from the call before.
C12_StagesInOrder == []StageArtifacts /\ [][StageStep]_vars

\* a run with two subqueries that went through every state and returned
C12_Witness ==
    /\ variant = "rd_rag"
    /\ pc = "answered"
    /\ api_key
    /\ Len(pq_subqueries) = 2
    /\ Len(initial_results) = 2
    /\ Len(pq_reranked) = 2
    /\ pq_context # ""
    /\ response \in Answers

\* C13: reranking and answering with zero documents fail hard: rerank(q, [])
\* returns no normal result, generate_response on an empty context returns no
\* normal answer, and process_query returns no string when the reranker
\* variant holds zero chunks or the rationale-driven variant has zero
\* subqueries.
C13_ZeroDocumentsFailHard ==
    pc = "answered" =>
        /\ ~(variant = "reranker" /\ all_chunks = <<>>)
        /\ ~(variant = "rd_rag" /\ pq_subqueries = <<>>)
        /\ \A o \in PipelineOutcomes(client, <<>>, NoneK) :
              Rerank(client, query, <<>>, NoneK, o).raised
        /\ \A o \in GenOutcomes(api_key, Answers, "") :
              GenerateResponse(api_key, query, "", o).raised

\* C14: with no index loaded, search raises and search_for_multiple_queries
\* propagates the failure for every sequence of queries, the empty one too: no
\* caller gets a result or a mapping back, and the index stays absent;
\* save_index raises without an index and writes nothing.
C14_FailsFastWithoutIndex ==
    /\ (variant = "simple" /\ ~index.built) => pc \notin {"answer", "answered"}
    /\ (variant = "rd_rag" /\ ~index.built) =>
          pc \notin {"rerank", "context", "answer", "answered"}
    /\ (HasVectorStore /\ pc = "raised" /\ error = "no index") => index = NoIndex
    /\ SaveIndex(NoIndex, persisted) = [raised |-> TRUE, persisted |-> persisted]

\* the initialize call that is over could not load a persisted index
LoadFailed == InitializeOver /\ ~init_log.loaded

\* C15: load_index gives false without raising when the persisted index is
\* absent or corrupt and leaves the in-memory index as it was; initialize then
\* runs ingestion, builds and persists a new index, and returns normally.
C15_LoadFailureRebuilds ==
    /\ \A disk \in {Absent, Corrupt} : LoadIndex(index, disk) = [ok |-> FALSE, index |-> index]
    /\ LoadFailed =>
          (init_log.ingested /\ index.built /\ persisted = Saved(index.docs))

\* C15 as amended: load_index gives false without raising when the persisted
\* index is absent or corrupt and leaves the in-memory index as it was;
\* initialize then runs ingestion and returns normally; it builds and persists
\* a new index when ingestion gives at least one chunk, and otherwise leaves
\* the in-memory index and the path as they were, with no valid index there.
C15_LoadFailureRebuildsFromChunks ==
    /\ \A disk \in {Absent, Corrupt} : LoadIndex(index, disk) = [ok |-> FALSE, index |-> index]
    /\ pc = "init_ingest" => (~init_log.loaded /\ persisted.state # "valid")
    /\ (InitializeOver /\ init_log.found = "corrupt") => ~init_log.loaded
    /\ LoadFailed =>
          /\ init_log.ingested
          /\ \A d \in Corpora \ {<<>>} : ~SaveIndex(CreateIndex(d), persisted).raised
          /\ init_log.chunks > 0 =>
                /\ index.built
                /\ Len(index.docs) = init_log.chunks
                /\ persisted = Saved(index.docs)
          /\ init_log.chunks = 0 => persisted.state # "valid"

\* a corrupt persisted index, found without reinitialize, was replaced
C15_Witness ==
    /\ LoadFailed
    /\ pc = "ready"
    /\ ~init_log.reinitialize
    /\ init_log.found = "corrupt"
    /\ init_log.chunks = 2
    /\ index.built
    /\ persisted = Saved(index.docs)

\* where a step of process_query leaves the pipeline
QueryPcs ==
    {"extract", "subqueries", "search", "rerank", "context", "answer", "answered", "raised"}

\* where a step of initialize leaves the pipeline
InitializePcs == {"init_load", "init_ingest", "ready"}

\* C16: no step of process_query, in any variant and on any path (success,
\* fallback or raise), changes the in-memory index, the persisted index or the
\* resident chunk list; a step that changes one of them is a step of initialize.
C16_QueryLeavesIndexAlone ==
    [][/\ pc' \in QueryPcs => UNCHANGED <<index, persisted, all_chunks>>
       /\ ~(UNCHANGED <<index, persisted, all_chunks>>) => pc' \in InitializePcs]_vars

\* a query that raised, and one that fell back, on an index that is still there
C16_Witness ==
    /\ pc \in {"raised", "answered"}
    /\ variant = "rd_rag"
    /\ api_key
    /\ ~client
    /\ index.built
    /\ persisted = Saved(index.docs)
    /\ Len(pq_calls) >= 1

\* the calls of a fan-out over subs: a search for each, then a rerank for each
FanOutCalls(subs) ==
    [i \in 1..(2 * Len(subs)) |->
        IF i <= Len(subs) THEN [op |-> "search", query |-> subs[i]]
        ELSE [op |-> "rerank", query |-> subs[i - Len(subs)]]]

IsPrefix(s, t) == Len(s) <= Len(t) /\ \A i \in 1..Len(s) : s[i] = t[i]

\* the fan-out of the run is over
FannedOut == variant = "rd_rag" /\ pc \in {"context", "answer", "answered"}

\* C17: the fan-out of the rationale-driven process_query makes exactly one
\* search and exactly one rerank call per subquery, one after another in
\* subquery order, every search before the first rerank; the mapping has one
\* key per subquery, and the ranked list under a key holds only documents
\* retrieved for that key.
C17_OneSearchOneRerankPerSubquery ==
    /\ (InRun /\ pc # "extract" /\ pc # "subqueries") =>
          IsPrefix(pq_calls, FanOutCalls(pq_subqueries))
    /\ FannedOut =>
          /\ pq_calls = FanOutCalls(pq_subqueries)
          /\ Len(pq_reranked) = Len(pq_subqueries)
          /\ \A i \in 1..Len(pq_reranked) :
                /\ pq_reranked[i].query = pq_subqueries[i]
                /\ \A j \in 1..Len(pq_reranked[i].results) :
                      InList(pq_reranked[i].results[j].document,
                             PageContents(initial_results[i].results))

-----------------------------------------------------------------------------
(* Claims about the requests and the parse of generate_subqueries *)

\* the first min(n, length) entries of a list, in order
FirstEntries(subs, n) == [i \in 1..Min(n, Len(subs)) |-> subs[i]]

\* C18: generate_subqueries sends the retry request exactly when the first
\* parse gives fewer than n subqueries, never sends more than one retry (two
\* requests at most), and returns the first min(n, length) entries of the
\* parsed list in order, never padded.
C18_RetryExactlyWhenShort ==
    (api_key /\ sq_pc # "idle") =>
        /\ sq_requests <= 2
        /\ sq_pc = "retry" => (sq_requests = 1 /\ Len(subqueries) < num_queries)
        /\ (sq_pc = "returned" /\ sq_requests = 1) => Len(subqueries) >= num_queries
        /\ sq_pc = "returned" => sq_ret = FirstEntries(subqueries, num_queries)

\* C18 as amended: the retry request is sent exactly when the first parse
\* gives no subquery at all or fewer than n (for n = 0 an empty first parse
\* still asks again); never more than one retry; the returned list is the
\* first min(n, length) entries of the parsed list in order, never padded.
C18_RetryWhenEmptyOrShort ==
    (api_key /\ sq_pc # "idle") =>
        /\ sq_requests <= 2
        /\ sq_pc = "retry" =>
              (sq_requests = 1 /\ (Len(subqueries) = 0 \/ Len(subqueries) < num_queries))
        /\ (sq_pc = "returned" /\ sq_requests = 1) =>
              (Len(subqueries) >= 1 /\ Len(subqueries) >= num_queries)
        /\ sq_pc = "returned" =>
              /\ sq_requests \in {1, 2}
              /\ sq_ret = FirstEntries(subqueries, num_queries)
              /\ Len(sq_ret) <= Len(subqueries)

\* two asked for, the retry's parse gave one: one is returned
C18_Witness ==
    /\ api_key
    /\ sq_pc = "returned"
    /\ sq_requests = 2
    /\ num_queries = 2
    /\ subqueries = << <<"a">> >>
    /\ sq_ret = subqueries

\* the text after the LAST ':' of a line that has one
AfterLastColon(line) ==
    LET i == CHOOSE k \in 1..Len(line) :
                 /\ HasColonChar(line[k])
                 /\ \A j \in (k + 1)..Len(line) : ~HasColonChar(line[j])
    IN SubSeq(line, i + 1, Len(line))

\* a line without its list marker: a leading '-' or '*', or a leading number
\* with its dot
RECURSIVE StripMarker(_)
StripMarker(line) ==
    IF line # <<>> /\ Head(line) \in ({"-", "*", ".", " "} \cup Digits)
    THEN StripMarker(Tail(line))
    ELSE line

\* the subquery of a kept line as stated: after the last ':', or else the line
\* without its marker
StatedQuery(line) ==
    Strip(IF ColonIn(line) THEN AfterLastColon(line) ELSE StripMarker(line))

\* the first parse with the stated extraction
RECURSIVE StatedParse(_, _)
StatedParse(acc, text) ==
    IF text = <<>> THEN acc
    ELSE LET line == Strip(Head(text))
             q == StatedQuery(line)
         IN StatedParse(IF KeptLine(line) /\ q # <<>> /\ ~InList(q, acc)
                        THEN Append(acc, q) ELSE acc,
                        Tail(text))

\* C19: in the first parse the subquery taken from a kept line is the text
\* after the last ':' when the line has a ':', and otherwise the line with its
\* list marker (leading '-', '*' or number) stripped: "a:b:a" gives "a" and
\* "- a" gives "a".
C19_ExtractAfterLastColon ==
    (api_key /\ sq_requests = 1) => subqueries = StatedParse(<<>>, subqueries_text)

\* ---------------------------------------------------------------------------
\* Claims about what the fallback of rerank hands on

\* rerank returned by one of its fallbacks: no client, or the service call failed
FallbackPath == rr_pc = "returned" /\ (~client \/ ServiceFailed)

\* the resident chunks whose page_content are the documents of the call
ResidentChunks == [i \in 1..Len(documents) |-> Chunk(documents[i], "f1")]

LoadOnlyCall == ~init_log.reinitialize /\ init_log.found = "valid"

\* after such a call: loaded, nothing ingested, and the in-memory index holds
\* the fragments of the persisted one whatever file_name was
LoadOnlyOutcome ==
    (InitializeOver /\ LoadOnlyCall) =>
        /\ init_log.loaded
        /\ ~init_log.ingested
        /\ init_log.chunks = 0
        /\ persisted.state = "valid"
        /\ index = [built |-> TRUE, docs |-> persisted.docs]

\* the steps of such a call: the entry and the load, neither of which writes
\* the persisted index, and the load returns to the caller
LoadOnlyStep ==
    /\ (pc' = "init_load" /\ LoadOnlyCall') => persisted' = persisted
    /\ (pc = "init_load" /\ LoadOnlyCall) =>
          /\ pc' = "ready"
          /\ persisted' = persisted
          /\ index'.docs = persisted.docs

\* C22: initialize with reinitialize=False on a loadable persisted index only
\* loads it: the ingestion branch (ingestion, create_index, save_index) is not
\* taken, the persisted index is left as it was, and the in-memory index holds
\* the persisted fragments whatever the file_name argument.
C22_LoadOnly == []LoadOnlyOutcome /\ [][LoadOnlyStep]_vars

\* a load-only initialize given file_name f1 whose index holds a fragment of f2
C22_Witness ==
    /\ pc = "ready"
    /\ InitializeOver
    /\ LoadOnlyCall
    /\ init_log.loaded
    /\ init_args.file_name = "f1"
    /\ \E i \in 1..Len(index.docs) : index.docs[i].source = "f2"


\* the initialize call last executed found nothing loadable and its ingestion
\* yielded zero chunks
ZeroChunkInitialize == initialized /\ init_log.ingested /\ init_log.chunks = 0

\* a pipeline that never held an index and whose initialize yielded zero chunks
FreshZeroChunks ==
    /\ ZeroChunkInitialize
    /\ HasVectorStore => ~index.built
    /\ variant = "reranker" => all_chunks = <<>>

\* the ingestion step of initialize that yields zero chunks returns normally and
\* leaves the in-memory index and the persisted index as they were
ZeroChunkStep ==
    (pc = "init_ingest" /\ init_log'.chunks = 0) =>
        /\ pc' = "ready"
        /\ index' = index
        /\ persisted' = persisted

\* after it, on a fresh pipeline, no process_query of the rationale-driven and
\* simple variants gets past its search or returns: it ends raised; the
\* reranker-only variant returns its fixed message
FreshZeroChunkQueries ==
    (FreshZeroChunks /\ pc \in QueryPcs) =>
        /\ HasVectorStore => pc \in {"extract", "subqueries", "search", "raised"}
        /\ variant = "reranker" => pc = "answered" /\ response = NoChunksMessage

\* C23: when initialize finds no loadable persisted index and ingestion yields
\* zero chunks it returns normally, creates and persists nothing and leaves the
\* in-memory index as it was; on a fresh pipeline every later process_query of
\* the rationale-driven and simple variants then raises instead of returning,
\* and the reranker-only variant returns its fixed error string.
C23_ZeroChunksThenQueriesRaise ==
    [][ZeroChunkStep]_vars /\ []FreshZeroChunkQueries

\* the first half alone: the zero-chunk initialize and what it leaves behind
C23_ZeroChunksLeaveIndex ==
    /\ [][ZeroChunkStep]_vars
    /\ [](ZeroChunkInitialize /\ HasVectorStore /\ pc = "ready" =>
            \/ index = NoIndex
            \/ index.built /\ index.docs # <<>>)

\* the halves about the simple and the reranker-only variants
C23_SimpleAndRerankerOnly ==
    (variant # "rd_rag") => FreshZeroChunkQueries

\* a rationale-driven process_query on a fresh zero-chunk pipeline that returned
C23_ReturnedWithoutIndex ==
    /\ variant = "rd_rag"
    /\ FreshZeroChunks
    /\ pc = "answered"
    /\ pq_subqueries = <<>>


\* ---------------------------------------------------------------------------
\* Claims about where the context of the answerer comes from

\* the texts of the fragments the vector search returned in this run
RetrievedTexts ==
    UNION {{initial_results[e].results[i].page_content :
               i \in 1..Len(initial_results[e].results)} :
              e \in 1..Len(initial_results)}

\* the texts of the fragments the index holds
StoredTexts == {index.docs[i].page_content : i \in 1..Len(index.docs)}

\* the rationale-driven context: blocks labelled 1, 2, ... over retrieved texts
ChunksGrounded ==
    (variant = "rd_rag" /\ pc \in {"answer", "answered"}) =>
        /\ RetrievedTexts \subseteq StoredTexts
        /\ \E texts \in UNION {[1..m -> RetrievedTexts] :
                                 m \in 0..Cardinality(RetrievedTexts)} :
             pq_context = ExpectedContext(texts, 1)

\* the reranker-only context: record i carries the text and the source of the
\* resident chunk at the index of ranked entry i
RecordsGrounded ==
    (variant = "reranker" /\ pc \in {"answer", "answered"} /\ pq_reranked # <<>>) =>
        LET ranked == pq_reranked[1].results
        IN /\ Len(context_docs) = Len(ranked)
           /\ \A i \in 1..Len(ranked) :
                /\ PyIndexOK(all_chunks, ranked[i].index)
                /\ ranked[i].document = PyGet(all_chunks, ranked[i].index).page_content
                /\ context_docs[i].document = PyGet(all_chunks, ranked[i].index).page_content
                /\ context_docs[i].source = PyGet(all_chunks, ranked[i].index).source

\* C24: every context entry handed to the answerer is grounded in a stored
\* fragment: in the rationale-driven process_query each [Chunk X] text is the
\* text of a fragment the vector search returned for some subquery of the run;
\* in the reranker-only process_query each context record pairs the document
\* text with the source of the resident chunk at the same index
\* (document == all_chunks[index].page_content), on the service path and on the
\* fallback path.
C24_ContextGrounded == ChunksGrounded /\ RecordsGrounded

\* the service path of the reranker-only variant with the order reversed: the
\* first record is the second resident chunk, text and source
C24_Witness ==
    /\ variant = "reranker"
    /\ client
    /\ pc = "answered"
    /\ Len(all_chunks) = 2
    /\ all_chunks[1].page_content # all_chunks[2].page_content
    /\ Len(context_docs) = 2
    /\ pq_reranked[1].results[1].index = 1
    /\ context_docs[1] = [document |-> all_chunks[2].page_content,
                          source |-> all_chunks[2].source]


====
